---------------------------- MODULE Spec2Model ----------------------------
(***************************************************************************)
(* State-machine model of the ChatKitPanel component                       *)
(* (src/components/ChatKitPanel.tsx): the error slots, the script          *)
(* readiness effect, getClientSecret, the fact registry, the client tools, *)
(* the text-to-speech playback and handleResetChat.                        *)
(*                                                                         *)
(* One action is one event-loop task: a handler (or the continuation of an *)
(* async function after an await) together with the React re-render and    *)
(* the effects that re-run because of the state it set.                    *)
(***************************************************************************)
EXTENDS Integers, Sequences, FiniteSets, TLC

VARIABLES
    workflowConfigured,     \* isWorkflowConfigured (build-time configuration)
    isMounted,              \* isMountedRef.current
    registered,             \* window.customElements.get("openai-chatkit") is defined
    scriptStatus,           \* "pending" | "ready" | "error"
    timerArmed,             \* the readiness effect's setTimeout is pending
    timerKey,               \* the widgetInstanceKey when that timer was started
    errors,                 \* ErrorState: script, session, integration, retryable
    isInitializingSession,
    widgetInstanceKey,
    processedFacts,         \* processedFacts.current
    saveCalls,              \* onWidgetAction calls per fact id since the registry was last cleared
    calls,                  \* invocations of getClientSecret
    activeAudio,            \* the activeAudio state: 0 is null, otherwise an audio element
    audios,                 \* the audio elements created by playAudioFromText, and their calls
    ttsRequests,            \* requests sent to /api/tts
    isRecording,
    isSendingAudio,
    mediaRecorderRef,       \* mediaRecorderRef.current: 0 is null, otherwise a capture
    audioChunksRef,         \* audioChunksRef.current: the capture each chunk came from
    captures,               \* the capture sessions started by the voice control
    last,                   \* the last task that ran, with what it returned
    post                    \* the request handled by POST of /api/create-session

vars == <<workflowConfigured, isMounted, registered, scriptStatus, timerArmed, timerKey,
          errors, isInitializingSession, widgetInstanceKey, processedFacts,
          saveCalls, calls, activeAudio, audios, ttsRequests,
          isRecording, isSendingAudio, mediaRecorderRef, audioChunksRef, captures,
          last, post>>

\* the state of the component
panelVars == <<workflowConfigured, isMounted, registered, scriptStatus, timerArmed,
               timerKey, errors, isInitializingSession, widgetInstanceKey,
               processedFacts, saveCalls, calls, activeAudio, audios, ttsRequests,
               isRecording, isSendingAudio, mediaRecorderRef, audioChunksRef,
               captures, last>>

-----------------------------------------------------------------------------
(* Bounds *)

MaxCalls == 2       \* getClientSecret invocations that may overlap
MaxAudios == 3      \* playAudioFromText invocations in one run
MaxKey == 2         \* resets in one run
MaxCount == 2       \* the per-fact count of onWidgetAction calls saturates here
MaxCaptures == 2    \* clicks that start a capture in one run

-----------------------------------------------------------------------------
(* JavaScript values *)

\* null / undefined where a string may stand
Null == "<null>"

\* a value is truthy: neither null nor the empty string
Truthy(s) == s /= Null /\ s /= ""

\* a ?? b
Coalesce(a, b) == IF a /= Null THEN a ELSE b

\* JSON values as far as the code tells them apart: t is what typeof (and the
\* null test) sees, s the string when t = "str"
JUndef == [t |-> "undef", s |-> ""]
JNull == [t |-> "null", s |-> ""]
JNum(n) == [t |-> "num", s |-> n]
JStr(x) == [t |-> "str", s |-> x]

\* !v for a JSON leaf
JFalsy(v) ==
    \/ v.t \in {"undef", "null"}
    \/ v.t = "str" /\ v.s = ""
    \/ v.t = "num" /\ v.s = "0"

\* a value that may be an object with a `message` member
JScalar(v) == [t |-> v.t, s |-> v.s, message |-> JUndef]
JObjMessage(m) == [t |-> "obj", s |-> "", message |-> m]

\* a value that may be an object with an `error` member
JPlain(v) == [t |-> v.t, s |-> v.s, error |-> JScalar(JUndef)]
JObjError(e) == [t |-> "obj", s |-> "", error |-> e]

\* the decoded body: an object with the members the code reads
JBody(e, d, m, cs) ==
    [error |-> e, details |-> d, message |-> m, client_secret |-> cs]

EmptyObject == JBody(JScalar(JUndef), JPlain(JUndef), JUndef, JUndef)

-----------------------------------------------------------------------------
(* extractErrorDetail and the responses of the session endpoint *)

\* what JSON.parse returned: a non-null object, null, or another scalar
JObject(o) == [kind |-> "object", o |-> o]
JNotObject(k) == [kind |-> k, o |-> EmptyObject]

\* priority mutated: the nested details before error.message
extractErrorDetail_DetailsFirst(payload, fallback) ==
    LET error == payload.o.error
        details == payload.o.details
        nestedError == details.error
    IN  IF payload.kind = "null" THEN fallback
        ELSE IF error.t = "str" THEN error.s
        ELSE IF details.t = "str" THEN details.s
        ELSE IF details.t = "obj" /\ nestedError.t = "str" THEN nestedError.s
        ELSE IF details.t = "obj" /\ nestedError.t = "obj"
                /\ nestedError.message.t = "str" THEN nestedError.message.s
        ELSE IF error.t = "obj" /\ error.message.t = "str" THEN error.message.s
        ELSE IF payload.o.message.t = "str" THEN payload.o.message.s
        ELSE fallback

extractErrorDetail(payload, fallback) ==
    LET error == payload.o.error
        details == payload.o.details
        nestedError == details.error
    IN  IF payload.kind = "null" THEN fallback
        ELSE IF error.t = "str" THEN error.s
        ELSE IF error.t = "obj" /\ error.message.t = "str" THEN error.message.s
        ELSE IF details.t = "str" THEN details.s
        ELSE IF details.t = "obj" /\ nestedError.t = "str" THEN nestedError.s
        ELSE IF details.t = "obj" /\ nestedError.t = "obj"
                /\ nestedError.message.t = "str" THEN nestedError.message.s
        ELSE IF payload.o.message.t = "str" THEN payload.o.message.s
        ELSE fallback

\* the body text: empty, not JSON, or the JSON text of `data`
RawEmpty == [text |-> "empty", data |-> JObject(EmptyObject)]
RawGarbage == [text |-> "garbage", data |-> JObject(EmptyObject)]
RawJson(d) == [text |-> "json", data |-> d]

\* `data` after lines 229-239: {} unless the text is non-empty and parses
ParseBody(raw) ==
    IF raw.text = "json" THEN raw.data ELSE JObject(EmptyObject)

\* how the fetch of the session endpoint ends
Thrown(isError, msg) ==
    [kind |-> "throw", isError |-> isError, msg |-> msg,
     ok |-> FALSE, statusText |-> "", raw |-> RawEmpty]
Answered(ok, statusText, raw) ==
    [kind |-> "response", isError |-> FALSE, msg |-> "",
     ok |-> ok, statusText |-> statusText, raw |-> raw]

ErrorMembers ==
    { JScalar(JUndef), JScalar(JStr("E1")), JScalar(JStr("")), JScalar(JNum("5")),
      JObjMessage(JStr("bad workflow")), JObjMessage(JNum("7")) }
DetailsMembers ==
    { JPlain(JUndef), JPlain(JStr("D1")), JObjError(JScalar(JStr("N1"))),
      JObjError(JObjMessage(JStr("N2"))), JObjError(JScalar(JUndef)) }
MessageMembers == { JUndef, JStr("M1") }
SecretMembers == { JUndef, JNull, JStr(""), JStr("abc"), JNum("42") }
StatusTexts == { "", "Bad Request" }

ErrorBodies ==
    { JObject(JBody(e, d, m, JUndef)) :
        e \in ErrorMembers, d \in DetailsMembers, m \in MessageMembers }
    \cup { JNotObject("null"), JNotObject("scalar") }
SuccessBodies ==
    { JObject(JBody(JScalar(JUndef), JPlain(JUndef), JUndef, cs)) : cs \in SecretMembers }
    \cup { JNotObject("null"), JNotObject("scalar") }

Responses ==
    { Thrown(TRUE, "Failed to fetch"), Thrown(FALSE, "") }
    \cup { Answered(FALSE, st, RawJson(b)) : st \in StatusTexts, b \in ErrorBodies }
    \cup { Answered(FALSE, st, raw) : st \in StatusTexts, raw \in {RawEmpty, RawGarbage} }
    \cup { Answered(TRUE, "OK", RawJson(b)) : b \in SuccessBodies }
    \cup { Answered(TRUE, "OK", raw) : raw \in {RawEmpty, RawGarbage} }

CfgMsg == "Set NEXT_PUBLIC_CHATKIT_WORKFLOW_ID in your .env.local file."
MissingSecretMsg == "Missing client secret in response"
UnableMsg == "Unable to start ChatKit session."

\* the try block mutated: a body that does not parse fails the call
TryOutcome_ParseDecides(r) ==
    LET data == ParseBody(r.raw)
        clientSecret == IF data.kind = "object" THEN data.o.client_secret ELSE JUndef
    IN  IF r.kind = "throw"
        THEN [resolved |-> FALSE, isError |-> r.isError, value |-> r.msg]
        ELSE IF r.raw.text = "garbage"
        THEN [resolved |-> FALSE, isError |-> TRUE, value |-> "Unexpected token"]
        ELSE IF ~r.ok
        THEN [resolved |-> FALSE, isError |-> TRUE,
              value |-> extractErrorDetail(data, r.statusText)]
        ELSE IF JFalsy(clientSecret)
        THEN [resolved |-> FALSE, isError |-> TRUE, value |-> MissingSecretMsg]
        ELSE [resolved |-> TRUE, isError |-> FALSE, value |-> clientSecret.s]

\* the body of the try block after the fetch settled, lines 219-259: the value
\* returned, or the message of the error thrown
TryOutcome(r) ==
    LET data == ParseBody(r.raw)
        clientSecret == IF data.kind = "object" THEN data.o.client_secret ELSE JUndef
    IN  IF r.kind = "throw"
        THEN [resolved |-> FALSE, isError |-> r.isError, value |-> r.msg]
        ELSE IF ~r.ok
        THEN [resolved |-> FALSE, isError |-> TRUE,
              value |-> extractErrorDetail(data, r.statusText)]
        ELSE IF JFalsy(clientSecret)
        THEN [resolved |-> FALSE, isError |-> TRUE, value |-> MissingSecretMsg]
        ELSE [resolved |-> TRUE, isError |-> FALSE, value |-> clientSecret.s]

\* `detail` of the catch block, lines 262-265
CatchDetail(out) == IF out.isError THEN out.value ELSE UnableMsg

-----------------------------------------------------------------------------
(* POST of src/app/api/create-session/route.ts, lines 28-87 *)

\* process.env.OPENAI_API_KEY and WORKFLOW_ID of @/lib/config
ApiKeys == { Null, "", "sk-test" }
DefaultWorkflowIds == { "", "wf_default" }

JBool(b) == [t |-> "bool", s |-> IF b THEN "true" ELSE "false"]

\* a ?? b for JSON leaves
JCoalesce(a, b) == IF a.t \in {"undef", "null"} THEN b ELSE a

\* the member `workflow` of the request body: absent, or an object with `id`
WorkflowMember(t, id) == [t |-> t, id |-> id]
NoWorkflow == WorkflowMember("undef", JUndef)

\* the request body: text that is not JSON, the JSON null, or an object with
\* the members the handler reads
RequestBody(kind, workflow, workflowId, enabled) ==
    [kind |-> kind, workflow |-> workflow, workflowId |-> workflowId,
     enabled |-> enabled]
EmptyRequest == RequestBody("object", NoWorkflow, JUndef, JUndef)
RequestBodies ==
    { RequestBody("unparsed", NoWorkflow, JUndef, JUndef),
      RequestBody("null", NoWorkflow, JUndef, JUndef) }
    \cup { RequestBody("object", w, v, e) :
              w \in { NoWorkflow } \cup { WorkflowMember("obj", i) :
                          i \in { JUndef, JNull, JStr(""), JStr("wf_a") } },
              v \in { JUndef, JStr(""), JStr("wf_b") },
              e \in { JUndef, JBool(TRUE), JBool(FALSE) } }

\* await req.json().catch(() => ({})), line 37
reqJson(raw) == IF raw.kind = "unparsed" THEN EmptyRequest ELSE raw

\* body?.workflow?.id, body?.workflowId and
\* body?.chatkit_configuration?.file_upload?.enabled
OptWorkflowId(body) ==
    IF body.kind = "null" \/ body.workflow.t \in {"undef", "null"} THEN JUndef
    ELSE body.workflow.id
OptWorkflowIdMember(body) == IF body.kind = "null" THEN JUndef ELSE body.workflowId
OptEnabled(body) == IF body.kind = "null" THEN JUndef ELSE body.enabled

\* the resolution mutated: the configured default is not consulted
resolvedWorkflowId_BodyOnly(body, WORKFLOW_ID) ==
    JCoalesce(OptWorkflowId(body), OptWorkflowIdMember(body))

\* lines 38-39
resolvedWorkflowId(body, WORKFLOW_ID) ==
    JCoalesce(JCoalesce(OptWorkflowId(body), OptWorkflowIdMember(body)),
              JStr(WORKFLOW_ID))

\* the body of the upstream's answer: not JSON, the JSON null, or an object
UpstreamData(kind, cs, ea) == [kind |-> kind, client_secret |-> cs, expires_after |-> ea]
NoData == UpstreamData("none", JUndef, JUndef)
UpstreamBodies ==
    { UpstreamData("unparsed", JUndef, JUndef), UpstreamData("null", JUndef, JUndef) }
    \cup { UpstreamData("object", cs, ea) :
              cs \in { JUndef, JNull, JStr("cs_1") },
              ea \in { JUndef, JNum("600") } }

\* what fetch settles with, line 47: a rejection or a response
UpstreamRejected == [kind |-> "rejected", status |-> 0, data |-> NoData]
UpstreamAnswered(status, data) == [kind |-> "answered", status |-> status, data |-> data]
NoUpstream == [kind |-> "none", status |-> 0, data |-> NoData]
UpstreamStatuses == { 200, 201, 400, 401, 500 }
UpstreamResults ==
    { UpstreamRejected }
    \cup { UpstreamAnswered(s, d) : s \in UpstreamStatuses, d \in UpstreamBodies }

\* upstream.ok
UpstreamOk(u) == u.status \in 200..299

\* await upstream.json().catch(() => ({})), line 64
upstreamJson(data) ==
    IF data.kind = "unparsed" THEN UpstreamData("object", JUndef, JUndef) ELSE data

\* NextResponse.json(body, {status}): an error envelope or the credential
ErrorResponse(status, error, details) ==
    [status |-> status, error |-> error, details |-> details,
     client_secret |-> JUndef, expires_after |-> JUndef]
SecretResponse(cs, ea) ==
    [status |-> 200, error |-> Null, details |-> NoData,
     client_secret |-> cs, expires_after |-> ea]

\* the body sent upstream, lines 54-61
NoSent == [workflow |-> JUndef, enabled |-> JUndef]

\* a request: the environment it runs in, its body, the upstream's answer,
\* the upstream calls made and the responses returned
IdlePost(apiKey, WORKFLOW_ID) ==
    [pc |-> "idle", apiKey |-> apiKey, WORKFLOW_ID |-> WORKFLOW_ID,
     body |-> RequestBody("none", NoWorkflow, JUndef, JUndef),
     upstream |-> NoUpstream, upstreamCalls |-> 0, sent |-> NoSent,
     responses |-> <<>>]
NoPost == IdlePost(Null, "")

Respond(p, response) ==
    [p EXCEPT !.pc = "done", !.responses = Append(@, response)]

\* lines 30-35: the request arrives
POST(raw) ==
    /\ post.pc = "idle"
    /\ post' = IF ~Truthy(post.apiKey)
               THEN Respond([post EXCEPT !.body = raw],
                            ErrorResponse(500, "Missing OPENAI_API_KEY", NoData))
               ELSE [post EXCEPT !.pc = "reading", !.body = raw]
    /\ UNCHANGED panelVars

\* lines 37-62, after the body was read: the workflow id, then the upstream call
PostBody ==
    /\ post.pc = "reading"
    /\ LET body == reqJson(post.body)
           id == resolvedWorkflowId(body, post.WORKFLOW_ID)
       IN  post' = IF JFalsy(id)
                   THEN Respond(post, ErrorResponse(400, "Missing workflow id", NoData))
                   ELSE [post EXCEPT !.pc = "fetching",
                                     !.upstreamCalls = @ + 1,
                                     !.sent = [workflow |-> id,
                                               enabled |-> JCoalesce(OptEnabled(body),
                                                                     JBool(FALSE))]]
    /\ UNCHANGED panelVars

\* the answer mutated: every answer of the upstream is passed on as a success
PostOutcome_AlwaysSecret(u) ==
    IF u.kind = "rejected" THEN ErrorResponse(500, "Unexpected error", NoData)
    ELSE LET data == upstreamJson(u.data)
         IN  IF data.kind = "null" THEN ErrorResponse(500, "Unexpected error", NoData)
             ELSE SecretResponse(JCoalesce(data.client_secret, JNull),
                                 JCoalesce(data.expires_after, JNull))

\* lines 64-86: a rejected fetch and the member read of a null `data` throw
\* into the catch
PostOutcome(u) ==
    IF u.kind = "rejected" THEN ErrorResponse(500, "Unexpected error", NoData)
    ELSE LET data == upstreamJson(u.data)
         IN  IF ~UpstreamOk(u)
             THEN ErrorResponse(u.status, "Failed to create session", data)
             ELSE IF data.kind = "null"
             THEN ErrorResponse(500, "Unexpected error", NoData)
             ELSE SecretResponse(JCoalesce(data.client_secret, JNull),
                                 JCoalesce(data.expires_after, JNull))

\* the upstream call settles
PostUpstream(u) ==
    /\ post.pc = "fetching"
    /\ post' = Respond([post EXCEPT !.upstream = u], PostOutcome(u))
    /\ UNCHANGED panelVars

-----------------------------------------------------------------------------
(* The component state *)

CallIds == 1..MaxCalls
AudioIds == 1..MaxAudios
FactIds == {"f1", "f2"}

createInitialErrors ==
    [script |-> Null, session |-> Null, integration |-> Null, retryable |-> FALSE]

\* the slots a Partial<ErrorState> may name
Slots == {"script", "session", "integration", "retryable"}

\* the merge mutated: the slots that the update does not name are cleared
setErrorState_Replace(current, updates) ==
    [k \in Slots |-> IF k \in DOMAIN updates THEN updates[k] ELSE createInitialErrors[k]]

\* setErrorState: { ...current, ...updates }
setErrorState(current, updates) ==
    [k \in Slots |-> IF k \in DOMAIN updates THEN updates[k] ELSE current[k]]

IdleCall == [pc |-> "idle", first |-> FALSE, net |-> 0, gen |-> 0]
NoAudio == [pc |-> "none", url |-> "none"]
CaptureIds == 1..MaxCaptures
NoCapture == [pc |-> "none", stream |-> "none", blob |-> <<>>, sent |-> 0]
\* a task: its name, the call or audio it belongs to, what it returned (or
\* threw), and the external callback it called with the text it passed
Task(op, id, out, cb, text) ==
    [op |-> op, id |-> id, out |-> out, cb |-> cb, text |-> text]
Did(op, id, out) == Task(op, id, out, "", <<>>)
NoTask == Did("mount", 0, "")

\* the state after the first render and its effects: scriptStatus from the
\* useState initialiser, the readiness effect (handleLoaded, or the timer),
\* and the configuration effect of lines 147-155
PanelInit ==
    /\ workflowConfigured \in BOOLEAN
    /\ registered \in BOOLEAN
    /\ isMounted = TRUE
    /\ scriptStatus = IF registered THEN "ready" ELSE "pending"
    /\ timerArmed = ~registered
    /\ timerKey = 0
    /\ errors = IF workflowConfigured THEN createInitialErrors
                ELSE setErrorState(createInitialErrors,
                                   [session |-> CfgMsg, retryable |-> FALSE])
    /\ isInitializingSession = workflowConfigured
    /\ widgetInstanceKey = 0
    /\ processedFacts = {}
    /\ saveCalls = [f \in FactIds |-> 0]
    /\ calls = [c \in CallIds |-> IdleCall]
    /\ activeAudio = 0
    /\ audios = [a \in AudioIds |-> NoAudio]
    /\ ttsRequests = 0
    /\ isRecording = FALSE
    /\ isSendingAudio = FALSE
    /\ mediaRecorderRef = 0
    /\ audioChunksRef = <<>>
    /\ captures = [k \in CaptureIds |-> NoCapture]
    /\ last = NoTask

\* the component, with no request at the session-creation handler
Init == PanelInit /\ post = NoPost

-----------------------------------------------------------------------------
(* What is rendered, lines 511-549 *)

\* the priority mutated: session before script
blockingError_SessionFirst ==
    Coalesce(Coalesce(errors.session, errors.integration), errors.script)

activeError == Coalesce(errors.session, errors.integration)
blockingError == Coalesce(errors.script, activeError)

\* className of <ChatKit>: "block h-full w-full" rather than
\* "pointer-events-none opacity-0"
widgetInteractive == ~(Truthy(blockingError) \/ isInitializingSession)

\* fallbackMessage of <ErrorOverlay>
fallbackMessage ==
    IF Truthy(blockingError) \/ ~isInitializingSession
    THEN Null ELSE "Loading assistant session..."

\* onRetry of <ErrorOverlay> is handleResetChat rather than null
retryOffered == Truthy(blockingError) /\ errors.retryable

-----------------------------------------------------------------------------
(* The readiness effect, lines 84-141 *)

TimeoutDetail ==
    "ChatKit web component is unavailable. Verify that the script URL is reachable."

\* event.detail of a chatkit-script-error event: absent, or a text
ErrorDetails == { Null, "load failed" }

\* the state a task leaves once React has re-rendered and the effect of lines
\* 84-141 has re-run: it re-runs when scriptStatus changed (its dependency),
\* clears the timer of the previous run, and then either calls handleLoaded
\* (the element is defined) or arms the timer (status pending)
AfterRender(status, errs, armed) ==
    IF status = scriptStatus
    THEN [status |-> status, errors |-> errs, armed |-> armed]
    ELSE IF registered
    THEN [status |-> "ready", errors |-> setErrorState(errs, [script |-> Null]),
          armed |-> FALSE]
    ELSE [status |-> status, errors |-> errs, armed |-> (status = "pending")]

\* the key under which the timer left by a task was started: a timer that the
\* effect did not restart keeps the key of its start
StartedAt(r, key) ==
    IF ~r.armed THEN 0
    ELSE IF r.status = scriptStatus THEN timerKey
    ELSE key

\* the frame of the tasks that touch neither the facts, the calls nor the audio
SessionFrame == UNCHANGED <<workflowConfigured, isMounted, registered, widgetInstanceKey>>
FactFrame == UNCHANGED <<processedFacts, saveCalls>>
AudioFrame == UNCHANGED <<activeAudio, audios, ttsRequests>>
VoiceFrame ==
    UNCHANGED <<isRecording, isSendingAudio, mediaRecorderRef, audioChunksRef,
                captures>>

\* the script defines the custom element
RegisterRuntime ==
    /\ UNCHANGED post
    /\ ~registered
    /\ registered' = TRUE
    /\ last' = Did("register", 0, "")
    /\ UNCHANGED <<workflowConfigured, isMounted, scriptStatus, timerArmed, timerKey, errors,
                   isInitializingSession, widgetInstanceKey, calls>>
    /\ FactFrame /\ AudioFrame /\ VoiceFrame

\* handleLoaded, on a chatkit-script-loaded event (the listener is attached
\* while the component is mounted)
LoadedSignal ==
    /\ UNCHANGED post
    /\ isMounted
    /\ LET r == AfterRender("ready", setErrorState(errors, [script |-> Null]), timerArmed)
       IN  /\ scriptStatus' = r.status
           /\ errors' = r.errors
           /\ timerArmed' = r.armed
           /\ timerKey' = StartedAt(r, widgetInstanceKey)
    /\ last' = Did("loaded", 0, "")
    /\ UNCHANGED <<isInitializingSession, calls>>
    /\ SessionFrame /\ FactFrame /\ AudioFrame /\ VoiceFrame

\* the handler mutated: the status becomes error, the slots stay as they are
handleError_StatusOnly(detail, armed) ==
    /\ LET r == AfterRender("error", errors, armed)
       IN  /\ scriptStatus' = r.status
           /\ errors' = r.errors
           /\ timerArmed' = r.armed
           /\ timerKey' = StartedAt(r, widgetInstanceKey)
    /\ isInitializingSession' = FALSE

\* handleError(event), lines 99-108, followed by the re-render; `armed` tells
\* whether the timer is still pending when the handler runs
handleError(detail, armed) ==
    /\ LET msg == "Error: " \o Coalesce(detail, "unknown error")
           r == AfterRender("error",
                    setErrorState(errors, [script |-> msg, retryable |-> FALSE]),
                    armed)
       IN  /\ scriptStatus' = r.status
           /\ errors' = r.errors
           /\ timerArmed' = r.armed
           /\ timerKey' = StartedAt(r, widgetInstanceKey)
    /\ isInitializingSession' = FALSE

\* a chatkit-script-error event
ErrorSignal(detail) ==
    /\ UNCHANGED post
    /\ isMounted
    /\ handleError(detail, timerArmed)
    /\ last' = Did("script_error", 0, "")
    /\ UNCHANGED calls
    /\ SessionFrame /\ FactFrame /\ AudioFrame /\ VoiceFrame

\* the 5000 ms timer of lines 119-128 fires
TimerFires ==
    /\ UNCHANGED post
    /\ timerArmed
    /\ IF ~registered
       THEN handleError(TimeoutDetail, FALSE)
       ELSE /\ timerArmed' = FALSE
            /\ timerKey' = 0
            /\ UNCHANGED <<scriptStatus, errors, isInitializingSession>>
    /\ last' = Did("timer", 0, "")
    /\ UNCHANGED calls
    /\ SessionFrame /\ FactFrame /\ AudioFrame /\ VoiceFrame

\* the component unmounts: the cleanups of lines 78-82 and 131-140 run
Unmount ==
    /\ UNCHANGED post
    /\ isMounted
    /\ isMounted' = FALSE
    /\ timerArmed' = FALSE
    /\ timerKey' = 0
    /\ last' = Did("unmount", 0, "")
    /\ UNCHANGED <<workflowConfigured, registered, scriptStatus, errors,
                   isInitializingSession, widgetInstanceKey, calls>>
    /\ FactFrame /\ AudioFrame /\ VoiceFrame

-----------------------------------------------------------------------------
(* getClientSecret, lines 175-277 *)

\* the configuration branch mutated: initializing is left as it was
AcquireUnconfigured_KeepInitializing(c) ==
    /\ UNCHANGED post
    /\ errors' = IF isMounted
                 THEN setErrorState(errors, [session |-> CfgMsg, retryable |-> FALSE])
                 ELSE errors
    /\ UNCHANGED isInitializingSession
    /\ calls' = [calls EXCEPT ![c] =
                    [pc |-> "rejected", first |-> FALSE, net |-> 0, gen |-> 0]]
    /\ last' = Did("acquire_rejected", c, CfgMsg)

\* lines 185-193: the workflow is not configured
AcquireUnconfigured(c) ==
    /\ UNCHANGED post
    /\ errors' = IF isMounted
                 THEN setErrorState(errors, [session |-> CfgMsg, retryable |-> FALSE])
                 ELSE errors
    /\ isInitializingSession' = IF isMounted THEN FALSE ELSE isInitializingSession
    /\ calls' = [calls EXCEPT ![c] =
                    [pc |-> "rejected", first |-> FALSE, net |-> 0, gen |-> 0]]
    /\ last' = Did("acquire_rejected", c, CfgMsg)

\* lines 195-217: up to the await of the fetch
AcquireFetch(c, hasSecret) ==
    /\ UNCHANGED post
    /\ errors' = IF isMounted
                 THEN setErrorState(errors,
                        [session |-> Null, integration |-> Null, retryable |-> FALSE])
                 ELSE errors
    /\ isInitializingSession' =
            IF isMounted /\ ~hasSecret THEN TRUE ELSE isInitializingSession
    /\ calls' = [calls EXCEPT ![c] =
                    [pc |-> "fetching", first |-> ~hasSecret, net |-> 1,
                     gen |-> widgetInstanceKey]]
    /\ last' = Did("acquire_fetch", c, "")

\* the widget calls getClientSecret(currentSecret); hasSecret is
\* Boolean(currentSecret). The widget calls back once its element is defined
\* and while it is mounted. The call takes the first record that holds no
\* call in flight.
AcquireStart(c, hasSecret) ==
    /\ isMounted /\ registered
    /\ calls[c].pc /= "fetching"
    /\ \A b \in CallIds : b < c => calls[b].pc = "fetching"
    /\ IF ~workflowConfigured THEN AcquireUnconfigured(c) ELSE AcquireFetch(c, hasSecret)
    /\ UNCHANGED <<scriptStatus, timerArmed, timerKey>>
    /\ SessionFrame /\ FactFrame /\ AudioFrame /\ VoiceFrame

\* the settlement mutated: a success leaves the slots as they are
SettleErrors_NoClear(out) ==
    IF ~isMounted \/ out.resolved THEN errors
    ELSE setErrorState(errors, [session |-> CatchDetail(out), retryable |-> FALSE])

\* the settlement mutated: a failed call is marked retryable
SettleErrors_Retryable(out) ==
    IF ~isMounted THEN errors
    ELSE IF out.resolved
    THEN setErrorState(errors, [session |-> Null, integration |-> Null])
    ELSE setErrorState(errors, [session |-> CatchDetail(out), retryable |-> TRUE])

\* the error slots after the try/catch, lines 255-257 and 266-268
SettleErrors(out) ==
    IF ~isMounted THEN errors
    ELSE IF out.resolved
    THEN setErrorState(errors, [session |-> Null, integration |-> Null])
    ELSE setErrorState(errors, [session |-> CatchDetail(out), retryable |-> FALSE])

\* the fetch of call c settles with r: the rest of the try block, the catch
\* and the finally, lines 219-274
AcquireSettle(c, r) ==
    /\ UNCHANGED post
    /\ calls[c].pc = "fetching"
    /\ LET out == TryOutcome(r)
       IN  /\ errors' = SettleErrors(out)
           /\ isInitializingSession' =
                 IF isMounted /\ calls[c].first THEN FALSE ELSE isInitializingSession
           /\ calls' = [calls EXCEPT ![c].pc =
                            IF out.resolved THEN "resolved" ELSE "rejected",
                                      ![c].gen = 0]
           /\ last' = IF out.resolved
                      THEN Did("acquire_resolved", c, out.value)
                      ELSE Did("acquire_rejected", c, CatchDetail(out))
    /\ UNCHANGED <<scriptStatus, timerArmed, timerKey>>
    /\ SessionFrame /\ FactFrame /\ AudioFrame /\ VoiceFrame

-----------------------------------------------------------------------------
(* The client tools and the fact registry, lines 456-503 *)

WhiteSpace == { " ", "\n" }

\* text.replace(/\s+/g, " "): every run of white space becomes one space
RECURSIVE CollapseSpaces(_)
CollapseSpaces(t) ==
    IF t = <<>> THEN <<>>
    ELSE IF Head(t) \in WhiteSpace
    THEN IF Len(t) > 1 /\ t[2] \in WhiteSpace
         THEN CollapseSpaces(Tail(t))
         ELSE <<" ">> \o CollapseSpaces(Tail(t))
    ELSE <<Head(t)>> \o CollapseSpaces(Tail(t))

\* String.prototype.trim
RECURSIVE Trim(_)
Trim(t) ==
    IF t = <<>> THEN <<>>
    ELSE IF Head(t) \in WhiteSpace THEN Trim(Tail(t))
    ELSE IF t[Len(t)] \in WhiteSpace THEN Trim(SubSeq(t, 1, Len(t) - 1))
    ELSE t

\* the values of invocation.params the model draws from
ThemeParams == { Null, "light", "dark", "Dark", "blue" }
FactIdParams == { Null, "" } \cup FactIds
FactTextParams == { <<>>, <<"a", " ", "\n", "b">>, <<" ", "a", " ">> }

Saturate(n) == IF n < MaxCount THEN n + 1 ELSE n

ToolFrame ==
    UNCHANGED <<workflowConfigured, isMounted, registered, scriptStatus, timerArmed,
                timerKey,
                errors, isInitializingSession, widgetInstanceKey, calls>>

\* the validation mutated: every text is taken for a theme
SwitchTheme_AnyText(requested) ==
    /\ UNCHANGED post
    /\ isMounted /\ registered
    /\ last' = IF requested /= Null
               THEN Task("switch_theme", 0, "success", "theme:" \o requested, <<>>)
               ELSE Did("switch_theme", 0, "failure")
    /\ ToolFrame /\ FactFrame /\ AudioFrame /\ VoiceFrame

\* onClientTool, name switch_theme, lines 460-470
SwitchTheme(requested) ==
    /\ UNCHANGED post
    /\ isMounted /\ registered
    /\ last' = IF requested \in {"light", "dark"}
               THEN Task("switch_theme", 0, "success", "theme:" \o requested, <<>>)
               ELSE Did("switch_theme", 0, "failure")
    /\ ToolFrame /\ FactFrame /\ AudioFrame /\ VoiceFrame

\* the registry test mutated: the identifier is not looked up
IsDuplicateFact_NoLookup(id) == id = ""

\* !id || processedFacts.current.has(id), line 475
IsDuplicateFact(id) == id = "" \/ id \in processedFacts

\* onClientTool, name record_fact; id is String(params.fact_id ?? "")
RecordFact(factId, factText) ==
    /\ UNCHANGED post
    /\ isMounted /\ registered
    /\ LET id == Coalesce(factId, "")
       IN  IF IsDuplicateFact(id)
           THEN /\ last' = Did("record_fact", 0, "success")
                /\ FactFrame
           ELSE /\ processedFacts' = processedFacts \cup {id}
                /\ saveCalls' = [saveCalls EXCEPT ![id] = Saturate(@)]
                /\ last' = Task("record_fact", 0, "success", "save:" \o id,
                                Trim(CollapseSpaces(factText)))
    /\ ToolFrame /\ AudioFrame /\ VoiceFrame

\* onClientTool, any other name
OtherTool ==
    /\ UNCHANGED post
    /\ isMounted /\ registered
    /\ last' = Did("other_tool", 0, "failure")
    /\ ToolFrame /\ FactFrame /\ AudioFrame /\ VoiceFrame

\* the handler mutated: it also puts the error slots back to their initial value
ThreadChange_ClearsErrors ==
    /\ UNCHANGED post
    /\ isMounted /\ registered
    /\ processedFacts' = {}
    /\ saveCalls' = [f \in FactIds |-> 0]
    /\ errors' = createInitialErrors
    /\ last' = Did("thread_change", 0, "")
    /\ UNCHANGED <<workflowConfigured, isMounted, registered, scriptStatus, timerArmed,
                timerKey,
                   isInitializingSession, widgetInstanceKey, calls>>
    /\ AudioFrame /\ VoiceFrame

\* onThreadChange, lines 501-503
ThreadChange ==
    /\ UNCHANGED post
    /\ isMounted /\ registered
    /\ processedFacts' = {}
    /\ saveCalls' = [f \in FactIds |-> 0]
    /\ last' = Did("thread_change", 0, "")
    /\ ToolFrame /\ AudioFrame /\ VoiceFrame

\* the errors the widget reports to onError
WidgetErrors == { "stream interrupted", "rate limited" }

\* the callback mutated: it presents the widget's error in the integration slot
onError_Presents(error) ==
    /\ UNCHANGED post
    /\ isMounted /\ registered
    /\ errors' = setErrorState(errors, [integration |-> error, retryable |-> FALSE])
    /\ last' = Did("widget_error", 0, error)
    /\ UNCHANGED <<workflowConfigured, isMounted, registered, scriptStatus, timerArmed,
                   timerKey, isInitializingSession, widgetInstanceKey, calls>>
    /\ FactFrame /\ AudioFrame /\ VoiceFrame

\* onError, lines 504-508: the error is logged, no state is set
onError(error) ==
    /\ UNCHANGED post
    /\ isMounted /\ registered
    /\ last' = Did("widget_error", 0, error)
    /\ ToolFrame /\ FactFrame /\ AudioFrame /\ VoiceFrame

-----------------------------------------------------------------------------
(* playAudioFromText, lines 280-325 *)

\* A text is a sequence of characters; "c" stands for the token
\* "classification" (with its quotes), "x" for any other visible character.
SpeechTexts ==
    { <<"x">>,
      <<" ">>,
      <<"{", "c", "}">>,
      <<" ", "{", "x", "c", "x", "}", " ", "\n">>,
      <<"{", "c", "}", "x">>,
      <<"{", "c", "}", " ", "{", "c", "}">>,
      <<"{", "\n", "c", "}">>,
      <<"{", "c", "\n", "}">>,
      <<"x", "{", "c", "}">>,
      <<"{", "}", "c">> }

\* the first index from i on that holds no white space (Len(t) + 1 if none)
RECURSIVE SkipSpaces(_, _)
SkipSpaces(t, i) ==
    IF i <= Len(t) /\ t[i] \in WhiteSpace THEN SkipSpaces(t, i + 1) ELSE i

\* the first index from i on that holds ch, with no line break before it
\* (`.` does not match a line break); 0 if there is none
RECURSIVE FindOnLine(_, _, _)
FindOnLine(t, i, ch) ==
    IF i > Len(t) \/ t[i] = "\n" THEN 0
    ELSE IF t[i] = ch THEN i
    ELSE FindOnLine(t, i + 1, ch)

\* text.replace(/^\s*\{.*?"classification".*?\}\s*/, "")
CleanText(t) ==
    LET open == SkipSpaces(t, 1)
        tok == IF open <= Len(t) /\ t[open] = "{" THEN FindOnLine(t, open + 1, "c") ELSE 0
        close == IF tok > 0 THEN FindOnLine(t, tok + 1, "}") ELSE 0
    IN  IF close = 0 THEN t
        ELSE SubSeq(t, SkipSpaces(t, close + 1), Len(t))

\* cleanedText.trim().length === 0
NothingToSay(t) == Trim(CleanText(t)) = <<>>

\* HTMLMediaElement.pause() on audio a (0: there is none)
Paused(as, a) ==
    IF a /= 0 /\ as[a].pc = "playing" THEN [as EXCEPT ![a].pc = "paused"] ELSE as

\* the next audio a call of playAudioFromText would create
NextAudio ==
    IF \A a \in AudioIds : audios[a].pc /= "none" THEN 0
    ELSE CHOOSE a \in AudioIds : audios[a].pc = "none" /\
             \A b \in AudioIds : b < a => audios[b].pc /= "none"

PlaybackFrame ==
    UNCHANGED <<workflowConfigured, isMounted, registered, scriptStatus, timerArmed,
                timerKey,
                errors, isInitializingSession, widgetInstanceKey, calls>>

\* playAudioFromText(text) up to its return or its await of the fetch,
\* lines 282-302, called by handleResponse with the activeAudio of the last render
Speak(text) ==
    /\ UNCHANGED post
    /\ isMounted /\ registered
    /\ NextAudio /= 0
    /\ LET a == NextAudio
           stopped == Paused(audios, activeAudio)
       IN  IF NothingToSay(text)
           THEN /\ audios' = [stopped EXCEPT ![a].pc = "noop"]
                /\ ttsRequests' = ttsRequests
                /\ last' = Did("speak_noop", a, "")
           ELSE /\ audios' = [stopped EXCEPT ![a].pc = "fetching"]
                /\ ttsRequests' = ttsRequests + 1
                /\ last' = Did("speak_fetch", a, "")
    /\ UNCHANGED activeAudio
    /\ PlaybackFrame /\ FactFrame /\ VoiceFrame

\* the fetch of /api/tts settles, lines 304-322: with the audio, which starts
\* playing, or with a failure, which is logged. A state setter called after
\* the unmount changes nothing.
SpeakSettle(a, ok) ==
    /\ UNCHANGED post
    /\ audios[a].pc = "fetching"
    /\ IF ok
       THEN /\ audios' = [audios EXCEPT ![a] = [pc |-> "playing", url |-> "live"]]
            /\ activeAudio' = IF isMounted THEN a ELSE activeAudio
            /\ last' = Did("speak_play", a, "")
       ELSE /\ audios' = [audios EXCEPT ![a].pc = "failed"]
            /\ UNCHANGED activeAudio
            /\ last' = Did("speak_failed", a, "")
    /\ UNCHANGED ttsRequests
    /\ PlaybackFrame /\ FactFrame /\ VoiceFrame

\* the "ended" listener of lines 316-319
AudioEnded(a) ==
    /\ UNCHANGED post
    /\ audios[a].pc = "playing"
    /\ audios' = [audios EXCEPT ![a] = [pc |-> "ended", url |-> "revoked"]]
    /\ activeAudio' = IF isMounted THEN 0 ELSE activeAudio
    /\ last' = Did("audio_ended", a, "")
    /\ UNCHANGED ttsRequests
    /\ PlaybackFrame /\ FactFrame /\ VoiceFrame

\* onResponseStart, lines 492-500
ResponseStart ==
    /\ UNCHANGED post
    /\ isMounted /\ registered
    /\ audios' = Paused(audios, activeAudio)
    /\ activeAudio' = 0
    /\ errors' = setErrorState(errors, [integration |-> Null, retryable |-> FALSE])
    /\ last' = Did("response_start", 0, "")
    /\ UNCHANGED <<workflowConfigured, isMounted, registered, scriptStatus, timerArmed,
                timerKey,
                   isInitializingSession, widgetInstanceKey, calls, ttsRequests>>
    /\ FactFrame /\ VoiceFrame

-----------------------------------------------------------------------------
(* The voice-input action of the composer, lines 372-450 *)

\* what getUserMedia and the construction and start of the recorder can do
MicOutcomes == { "granted", "denied", "ctor_throws", "start_throws" }

\* how the fetch of /api/stt and response.json() end, lines 421-426: the fetch
\* rejects, the body is not JSON, the body is the JSON null, or the body is an
\* object with or without a transcript
SttThrown == [kind |-> "throw", ok |-> FALSE, json |-> "none", transcript |-> Null]
SttAnswered(ok, json, transcript) ==
    [kind |-> "response", ok |-> ok, json |-> json, transcript |-> transcript]
Transcripts == { Null, "", "hello" }
SttResponses ==
    { SttThrown }
    \cup { SttAnswered(ok, json, Null) : ok \in BOOLEAN, json \in {"garbage", "null"} }
    \cup { SttAnswered(ok, "object", t) : ok \in BOOLEAN, t \in Transcripts }

\* the test mutated: the status of the response is not looked at
Transcribed_AnyStatus(r) ==
    r.kind = "response" /\ r.json = "object" /\ Truthy(r.transcript)

\* response.ok && data.transcript, line 428, reached when neither the fetch
\* nor response.json() threw and data is not null
Transcribed(r) ==
    r.kind = "response" /\ r.json = "object" /\ r.ok /\ Truthy(r.transcript)

\* the streams whose tracks have not been stopped
LiveStreams == { k \in CaptureIds : captures[k].stream = "live" }

\* the captures whose recorder is in the state "recording"
Recording == { k \in CaptureIds : captures[k].pc = "recording" }

\* the captures with a continuation still to run
Pending == { k \in CaptureIds : captures[k].pc \in { "acquiring", "stopping", "uploading" } }

\* line 382: the control is disabled while a recording is being sent
voiceDisabled == isSendingAudio

NextCapture ==
    IF \E k \in CaptureIds : captures[k].pc = "none"
    THEN CHOOSE k \in CaptureIds :
            /\ captures[k].pc = "none"
            /\ \A j \in CaptureIds : j < k => captures[j].pc /= "none"
    ELSE 0

VoiceRest ==
    UNCHANGED <<workflowConfigured, isMounted, registered, scriptStatus, timerArmed,
                timerKey,
                errors, isInitializingSession, widgetInstanceKey, calls>>
    /\ FactFrame /\ AudioFrame

\* lines 384-388: the click while isRecording. stop() on a recorder that is
\* not recording does nothing, or throws InvalidStateError in the engines that
\* follow the earlier text of the recording standard (stopThrows)
StopRecording(stopThrows) ==
    LET r == mediaRecorderRef
        active == r /= 0 /\ captures[r].pc = "recording"
        thrown == r /= 0 /\ ~active /\ stopThrows
    IN  /\ captures' = IF active THEN [captures EXCEPT ![r].pc = "stopping"] ELSE captures
        /\ isRecording' = IF thrown THEN isRecording ELSE FALSE
        /\ isSendingAudio' = IF thrown THEN isSendingAudio ELSE TRUE
        /\ last' = Did("voice_stop", r, IF active THEN "stopping"
                                        ELSE IF thrown THEN "threw" ELSE "inactive")
        /\ UNCHANGED <<mediaRecorderRef, audioChunksRef>>

\* lines 390-401: the click while not recording, up to the await of
\* getUserMedia; mediaSupported tells whether navigator.mediaDevices.getUserMedia
\* exists when the handler reads it
StartRecording(mediaSupported) ==
    IF ~mediaSupported
    THEN /\ last' = Did("voice_unsupported", 0, "")
         /\ UNCHANGED <<isRecording, isSendingAudio, mediaRecorderRef, audioChunksRef,
                        captures>>
    ELSE /\ NextCapture /= 0
         /\ captures' = [captures EXCEPT ![NextCapture].pc = "acquiring"]
         /\ last' = Did("voice_start", NextCapture, "")
         /\ UNCHANGED <<isRecording, isSendingAudio, mediaRecorderRef, audioChunksRef>>

\* onClick, lines 383-448: the control is in the composer of the widget,
\* which takes pointer events only while it is shown (lines 531-535)
VoiceClick(mediaSupported, stopThrows) ==
    /\ UNCHANGED post
    /\ isMounted /\ registered
    /\ widgetInteractive
    /\ ~voiceDisabled
    /\ IF isRecording THEN StopRecording(stopThrows) ELSE StartRecording(mediaSupported)
    /\ VoiceRest

\* getUserMedia of capture k settles: lines 399-446 after the await
MicSettle(k, outcome) ==
    /\ UNCHANGED post
    /\ captures[k].pc = "acquiring"
    /\ CASE outcome = "denied" ->
              /\ captures' = [captures EXCEPT ![k].pc = "denied"]
              /\ UNCHANGED <<isRecording, mediaRecorderRef, audioChunksRef>>
         [] outcome = "ctor_throws" ->
              /\ captures' = [captures EXCEPT ![k] =
                                [pc |-> "failed", stream |-> "live", blob |-> <<>>,
                                 sent |-> 0]]
              /\ UNCHANGED <<isRecording, mediaRecorderRef, audioChunksRef>>
         [] outcome = "start_throws" ->
              /\ captures' = [captures EXCEPT ![k] =
                                [pc |-> "failed", stream |-> "live", blob |-> <<>>,
                                 sent |-> 0]]
              /\ mediaRecorderRef' = k
              /\ audioChunksRef' = <<>>
              /\ UNCHANGED isRecording
         [] OTHER ->
              /\ captures' = [captures EXCEPT ![k] =
                                [pc |-> "recording", stream |-> "live", blob |-> <<>>,
                                 sent |-> 0]]
              /\ mediaRecorderRef' = k
              /\ audioChunksRef' = <<>>
              /\ isRecording' = IF isMounted THEN TRUE ELSE isRecording
    /\ last' = Did("mic_settled", k, outcome)
    /\ UNCHANGED isSendingAudio
    /\ VoiceRest

\* the recorder of capture k has stopped: its dataavailable event, lines
\* 407-409, then its stop event up to the await of the fetch, lines 411-424
RecorderStopped(k) ==
    /\ UNCHANGED post
    /\ captures[k].pc = "stopping"
    /\ audioChunksRef' = Append(audioChunksRef, k)
    /\ captures' = [captures EXCEPT ![k].pc = "uploading",
                                    ![k].blob = Append(audioChunksRef, k)]
    /\ last' = Did("recorder_stopped", k, "")
    /\ UNCHANGED <<isRecording, isSendingAudio, mediaRecorderRef>>
    /\ VoiceRest

\* what releases the stream of capture k, line 438
ReleaseStream_Keep(k) == captures[k].stream

ReleaseStream(k) == "stopped"

\* the transcription request of capture k settles: lines 425-439
SttSettle(k, r) ==
    /\ UNCHANGED post
    /\ captures[k].pc = "uploading"
    /\ captures' = [captures EXCEPT ![k].pc = "done",
                                    ![k].stream = ReleaseStream(k),
                                    ![k].sent = IF Transcribed(r) THEN @ + 1 ELSE @]
    /\ isSendingAudio' = IF isMounted THEN FALSE ELSE isSendingAudio
    /\ last' = IF Transcribed(r)
               THEN Task("stt_settled", k, r.transcript, "sendMessage", <<>>)
               ELSE Did("stt_settled", k, "")
    /\ UNCHANGED <<isRecording, mediaRecorderRef, audioChunksRef>>
    /\ VoiceRest

-----------------------------------------------------------------------------
(* handleResetChat, lines 157-173 *)

\* the reset mutated: the registry is kept
ResetFacts_Keep == processedFacts

\* processedFacts.current.clear()
ResetFacts == {}

\* handleResetChat, with the re-render that follows it
handleResetChat ==
    /\ UNCHANGED post
    /\ isMounted
    /\ widgetInstanceKey < MaxKey
    /\ processedFacts' = ResetFacts
    /\ saveCalls' = [f \in FactIds |-> 0]
    /\ audios' = Paused(audios, activeAudio)
    /\ activeAudio' = 0
    /\ isInitializingSession' = TRUE
    /\ LET r == AfterRender(IF registered THEN "ready" ELSE "pending",
                            createInitialErrors, timerArmed)
       IN  /\ scriptStatus' = r.status
           /\ errors' = r.errors
           /\ timerArmed' = r.armed
           /\ timerKey' = StartedAt(r, widgetInstanceKey + 1)
    /\ widgetInstanceKey' = widgetInstanceKey + 1
    /\ last' = Did("reset", 0, "")
    /\ UNCHANGED <<workflowConfigured, isMounted, registered, calls, ttsRequests>>
    /\ VoiceFrame

-----------------------------------------------------------------------------
(* The specifications *)

\* the responses and texts the specification of the whole component draws from
CoreResponses ==
    { Thrown(TRUE, "Failed to fetch"),
      Answered(FALSE, "", RawEmpty),
      Answered(FALSE, "Bad Request",
               RawJson(JObject(JBody(JObjMessage(JStr("bad workflow")), JPlain(JUndef),
                                     JUndef, JUndef)))),
      Answered(TRUE, "OK", RawJson(JObject(JBody(JScalar(JUndef), JPlain(JUndef),
                                                JUndef, JStr("abc"))))),
      Answered(TRUE, "OK", RawEmpty) }
CoreTexts == { <<"x">>, <<"{", "c", "}">> }
CoreFactTexts == { <<" ", "a", " ">> }

Readiness ==
    \/ RegisterRuntime
    \/ LoadedSignal
    \/ \E d \in ErrorDetails : ErrorSignal(d)
    \/ TimerFires

\* getClientSecret with the call records C and the responses R
Session(C, R) ==
    \/ \E c \in C, hasSecret \in BOOLEAN : AcquireStart(c, hasSecret)
    \/ \E c \in C, r \in R : AcquireSettle(c, r)

\* the client tools with the fact identifiers F and the fact texts T
Tools(F, T) ==
    \/ \E t \in ThemeParams : SwitchTheme(t)
    \/ \E id \in F, text \in T : RecordFact(id, text)
    \/ OtherTool
    \/ ThreadChange

\* the playback with the audio elements A and the texts T
Playback(A, T) ==
    \/ \E text \in T : NextAudio \in A /\ Speak(text)
    \/ \E a \in A, ok \in BOOLEAN : SpeakSettle(a, ok)
    \/ \E a \in A : AudioEnded(a)

\* the voice-input action with the captures K
Voice(K) ==
    \/ \E mediaSupported, stopThrows \in BOOLEAN :
          \* a browser that has served getUserMedia keeps the API
          /\ ~mediaSupported => \A k \in CaptureIds : captures[k].pc = "none"
          /\ VoiceClick(mediaSupported, stopThrows)
    \/ \E k \in K, outcome \in MicOutcomes : MicSettle(k, outcome)
    \/ \E k \in K : RecorderStopped(k)
    \/ \E k \in K, r \in SttResponses : SttSettle(k, r)

Lifecycle ==
    \/ ResponseStart
    \/ handleResetChat
    \/ Unmount

\* the component without its voice-input action, with one call of
\* getClientSecret at a time
Next ==
    \/ Readiness
    \/ Session({1}, CoreResponses)
    \/ Tools({Null, "f1"}, CoreFactTexts)
    \/ Playback({1, 2}, CoreTexts)
    \/ Lifecycle

Spec == Init /\ [][Next]_vars

\* the readiness gate and the session provider, with overlapping calls
SessionNext == Readiness \/ Session(CallIds, CoreResponses) \/ Lifecycle
SpecSession == Init /\ [][SessionNext]_vars

\* the readiness gate, the session provider with one call at a time, and the
\* errors the widget reports
WidgetErrorNext ==
    \/ Readiness
    \/ Session({1}, CoreResponses)
    \/ Lifecycle
    \/ \E error \in WidgetErrors : onError(error)
SpecWidgetErrors == Init /\ [][WidgetErrorNext]_vars

\* the session-creation handler: one request, in every environment
RouteInit ==
    /\ PanelInit
    /\ \E k \in ApiKeys, w \in DefaultWorkflowIds : post = IdlePost(k, w)
RouteNext ==
    \/ \E raw \in RequestBodies : POST(raw)
    \/ PostBody
    \/ \E u \in UpstreamResults : PostUpstream(u)
SpecRoute == RouteInit /\ [][RouteNext]_vars

\* the session provider over every response, one call at a time
ResponsesNext == Readiness \/ Session({1}, Responses) \/ Lifecycle
SpecResponses == Init /\ [][ResponsesNext]_vars

\* the client tools and the fact registry
FactsNext == RegisterRuntime \/ Tools(FactIdParams, FactTextParams) \/ Lifecycle
SpecFacts == Init /\ [][FactsNext]_vars

\* the playback, over every text
PlaybackNext == RegisterRuntime \/ Playback(AudioIds, SpeechTexts) \/ Lifecycle
SpecPlayback == Init /\ [][PlaybackNext]_vars

\* the playback of a component that stays mounted, when every request to
\* /api/tts settles and every audio that is playing reaches its end
PlaybackMounted ==
    \/ RegisterRuntime
    \/ Playback(AudioIds, SpeechTexts)
    \/ ResponseStart
    \/ handleResetChat
PlaybackFairness ==
    /\ \A a \in AudioIds : WF_vars(\E ok \in BOOLEAN : SpeakSettle(a, ok))
    /\ \A a \in AudioIds : WF_vars(AudioEnded(a))
SpecPlaybackFair == Init /\ [][PlaybackMounted]_vars /\ PlaybackFairness

\* the voice-input action, with the session that makes the widget
\* interactive, while the component is mounted and with its unmount
VoiceMounted ==
    \/ RegisterRuntime
    \/ Session({1}, { Thrown(TRUE, "Failed to fetch"),
                      Answered(TRUE, "OK",
                               RawJson(JObject(JBody(JScalar(JUndef), JPlain(JUndef),
                                                     JUndef, JStr("abc"))))) })
    \/ Voice(CaptureIds)
VoiceNext == VoiceMounted \/ Unmount
SpecVoice == Init /\ [][VoiceNext]_vars

\* the voice-input action of a component that stays mounted, when every
\* pending continuation runs (the browser settles getUserMedia, delivers the
\* stop event of a stopped recorder and settles the fetch) and the user stops
\* every recording they can stop
VoiceFairness ==
    /\ \A k \in CaptureIds : WF_vars(\E outcome \in MicOutcomes : MicSettle(k, outcome))
    /\ \A k \in CaptureIds : WF_vars(RecorderStopped(k))
    /\ \A k \in CaptureIds : WF_vars(\E r \in SttResponses : SttSettle(k, r))
    /\ WF_vars(isRecording /\ \E stopThrows \in BOOLEAN : VoiceClick(TRUE, stopThrows))
SpecVoiceFair == Init /\ [][VoiceMounted]_vars /\ VoiceFairness

-----------------------------------------------------------------------------
(* The claims *)

\* C1: in every reachable state the presented blocking error is the script
\* slot if it is non-null, else the session slot if it is non-null, else the
\* integration slot, else null.
C1_PresentedError ==
    blockingError =
        IF errors.script /= Null THEN errors.script
        ELSE IF errors.session /= Null THEN errors.session
        ELSE IF errors.integration /= Null THEN errors.integration
        ELSE Null

\* C1 witness: a rejected getClientSecret wrote the session slot while the
\* script slot holds a load error, and the script error is the one presented.
C1_Witness ==
    /\ last.op = "acquire_rejected"
    /\ errors.script /= Null
    /\ errors.session /= Null
    /\ errors.session /= errors.script
    /\ blockingError = errors.script

\* C2: an invocation of record_fact with an empty or missing fact_id calls the
\* save callback never; one with a non-empty fact_id leaves exactly one call
\* for that id since the registry was last cleared, made by this invocation
\* if and only if none was made before.
C2_OneSavePerFact ==
    [][\A id \in FactIdParams, text \in FactTextParams :
          RecordFact(id, text) =>
            LET k == Coalesce(id, "")
            IN  IF k = ""
                THEN saveCalls' = saveCalls /\ last'.cb = ""
                ELSE /\ saveCalls'[k] = 1
                     /\ (saveCalls[k] = 0) <=> (last'.cb = "save:" \o k)
                     /\ \A f \in FactIds \ {k} : saveCalls'[f] = saveCalls[f]]_vars

\* C2 witness: record_fact ran for an id that is already in the registry (or
\* for an empty id) and called nothing, while the registry holds a fact that
\* was saved once.
C2_Witness ==
    /\ last.op = "record_fact"
    /\ last.cb = ""
    /\ processedFacts = {"f1"}
    /\ saveCalls["f1"] = 1

\* C3: in the state right after handleResetChat the fact registry is empty,
\* the active playback handle is null, initializing is true, the three error
\* slots are null, retryable is false and the widget instance key is one
\* greater than before.
C3_AfterReset ==
    [][handleResetChat =>
          /\ processedFacts' = {}
          /\ activeAudio' = 0
          /\ isInitializingSession'
          /\ errors'.script = Null
          /\ errors'.session = Null
          /\ errors'.integration = Null
          /\ ~errors'.retryable
          /\ widgetInstanceKey' = widgetInstanceKey + 1]_vars

\* C3 witness: a second reset has run, and an audio it (or a later call)
\* stopped is paused.
C3_Witness ==
    /\ last.op = "reset"
    /\ widgetInstanceKey = 2
    /\ \E a \in AudioIds : audios[a].pc = "paused"

\* C4: in every reachable state the widget is interactive only when there is
\* no blocking error and initializing is false, the loading message is shown
\* only when there is no blocking error and initializing is true, and the
\* retry action is offered only when a blocking error exists and retryable is
\* true. Violated: a session slot holding the empty string is a blocking
\* error the render tests as absent.
C4_ThreeStates ==
    LET exists == blockingError /= Null
    IN  /\ widgetInteractive => (~exists /\ ~isInitializingSession)
        /\ (fallbackMessage /= Null) => (~exists /\ isInitializingSession)
        /\ retryOffered => (exists /\ errors.retryable)

\* C5: with the workflow not configured, every call of getClientSecret
\* rejects with the configuration message without a network request, and
\* leaves the session slot at that message, retryable false and initializing
\* false.
C5_Unconfigured ==
    [][\A c \in CallIds, hasSecret \in BOOLEAN :
          (~workflowConfigured /\ AcquireStart(c, hasSecret)) =>
            /\ calls'[c].pc = "rejected"
            /\ calls'[c].net = 0
            /\ last'.op = "acquire_rejected" /\ last'.out = CfgMsg
            /\ errors'.session = CfgMsg
            /\ ~errors'.retryable
            /\ ~isInitializingSession']_vars

\* C5 witness: after a reset (which set initializing and cleared the slots) a
\* call was rejected for the missing configuration.
C5_Witness ==
    /\ ~workflowConfigured
    /\ widgetInstanceKey > 0
    /\ last.op = "acquire_rejected"
    /\ errors.session = CfgMsg
    /\ ~isInitializingSession
    /\ \A c \in CallIds : calls[c].net = 0

\* the response is a success whose body is JSON with a non-empty string
\* client_secret
HasSecret(r) ==
    /\ r.kind = "response" /\ r.ok
    /\ r.raw.text = "json" /\ r.raw.data.kind = "object"
    /\ r.raw.data.o.client_secret.t = "str"
    /\ r.raw.data.o.client_secret.s /= ""

SecretResponses == { r \in Responses : HasSecret(r) }

\* C6: when a first acquisition (currentSecret null) settles, mounted, with a
\* success response carrying a non-empty client_secret, it resolves to that
\* secret and leaves the session and integration slots null and initializing
\* false.
C6_Success ==
    [][\A c \in CallIds, r \in SecretResponses \cap CoreResponses :
          (isMounted /\ calls[c].pc = "fetching" /\ calls[c].first
           /\ AcquireSettle(c, r)) =>
            /\ calls'[c].pc = "resolved"
            /\ last'.op = "acquire_resolved"
            /\ last'.out = r.raw.data.o.client_secret.s
            /\ errors'.session = Null
            /\ errors'.integration = Null
            /\ ~isInitializingSession']_vars

\* C6 witness: a call resolved to "abc".
C6_Witness ==
    /\ isMounted
    /\ last.op = "acquire_resolved"
    /\ last.out = "abc"
    /\ \E c \in CallIds : calls[c].pc = "resolved" /\ calls[c].first
    /\ errors.session = Null
    /\ ~isInitializingSession

\* the responses with a non-success status
FailureResponses == { r \in Responses : r.kind = "response" /\ ~r.ok }

\* the members of the decoded body of r (of {} when the body does not decode
\* to an object)
BodyOf(r) ==
    IF r.raw.text = "json" /\ r.raw.data.kind = "object" THEN r.raw.data.o ELSE EmptyObject

\* the detail as the claim orders it: error (string), error.message,
\* details (string), details.error (string, or its message), else `rest`
DetailBeforeFallback(r, rest) ==
    LET b == BodyOf(r)
    IN  IF b.error.t = "str" THEN b.error.s
        ELSE IF b.error.t = "obj" /\ b.error.message.t = "str" THEN b.error.message.s
        ELSE IF b.details.t = "str" THEN b.details.s
        ELSE IF b.details.t = "obj" /\ b.details.error.t = "str" THEN b.details.error.s
        ELSE IF b.details.t = "obj" /\ b.details.error.t = "obj"
                /\ b.details.error.message.t = "str" THEN b.details.error.message.s
        ELSE rest

\* C7 as stated: for every non-success response the rejection message is the
\* first of error (string), error.message, details (string), details.error
\* (string, or its message), and otherwise the HTTP status text. Violated by
\* a body whose only recognised member is a string `message`.
C7_DetailPriority_Original ==
    [][\A r \in FailureResponses :
          (calls[1].pc = "fetching" /\ AcquireSettle(1, r)) =>
            /\ last'.op = "acquire_rejected"
            /\ last'.out = DetailBeforeFallback(r, r.statusText)]_vars

\* C7 amended: for every non-success response the rejection message is the
\* first of error (string), error.message, details (string), details.error
\* (string, or its message), the top-level message (string), and otherwise
\* the HTTP status text.
C7_DetailPriority ==
    [][\A r \in FailureResponses :
          (calls[1].pc = "fetching" /\ AcquireSettle(1, r)) =>
            /\ last'.op = "acquire_rejected"
            /\ last'.out = DetailBeforeFallback(r,
                              IF BodyOf(r).message.t = "str" THEN BodyOf(r).message.s
                              ELSE r.statusText)]_vars

\* C7 witness: a call was rejected with "bad workflow", which the session
\* slot now holds.
C7_Witness ==
    /\ last.op = "acquire_rejected"
    /\ last.out = "bad workflow"
    /\ errors.session = "bad workflow"

\* C8: whenever a call of getClientSecret has just rejected while mounted, the
\* session slot is non-null, retryable is false and the blocking error is
\* presented (the widget is hidden and no loading message is shown); and no
\* call issues more than one network request. Violated: a rejection whose
\* detail is the empty string leaves a slot the render tests as absent.
C8_RejectionSurfaced ==
    /\ \A c \in CallIds : calls[c].net <= 1
    /\ (isMounted /\ last.op = "acquire_rejected") =>
          /\ errors.session /= Null
          /\ ~errors.retryable
          /\ Truthy(blockingError)
          /\ ~widgetInteractive
          /\ fallbackMessage = Null

\* C9: at most one audio is playing at any time. Violated: two calls of
\* playAudioFromText that both await their fetch each start their audio.
C9_OneStream ==
    Cardinality({ a \in AudioIds : audios[a].pc = "playing" }) <= 1

\* C10: a call of playAudioFromText whose text is empty after the prefix is
\* stripped and the rest trimmed sends no request and leaves the active handle
\* and the playing or paused status of every audio unchanged. Violated: the
\* call pauses the active audio before it looks at the text.
C10_EmptySpeakNoOp ==
    [][\A text \in SpeechTexts :
          (NothingToSay(text) /\ Speak(text)) =>
            /\ ttsRequests' = ttsRequests
            /\ activeAudio' = activeAudio
            /\ \A a \in AudioIds :
                  (audios'[a].pc = "playing") <=> (audios[a].pc = "playing")]_vars

\* C11: at any moment at most one capture session is alive: at most one
\* microphone stream has been acquired and not yet released, however the
\* clicks interleave with the settling of getUserMedia and the stop events.
C11_OneCapture == Cardinality(LiveStreams) <= 1

\* C12: every capture session that has acquired a stream eventually releases
\* it and the pipeline returns to idle, whatever the outcome of the capture.
C12_StreamReleased ==
    \A k \in CaptureIds :
        (captures[k].stream = "live")
            ~> (captures[k].stream = "stopped" /\ ~isRecording /\ ~isSendingAudio)

\* C13: when a reset happened while the request of a getClientSecret call was
\* in flight, the later settlement of that call, success or failure, changes
\* neither the error slots nor the initializing flag.
C13_SupersededSettle ==
    [][\A c \in CallIds, r \in CoreResponses :
          (AcquireSettle(c, r) /\ calls[c].gen < widgetInstanceKey)
              => (errors' = errors /\ isInitializingSession' = isInitializingSession)]_vars

\* C14: after the unmount no continuation changes the state of the component
\* or has an effect: the readiness status, the error slots, the initializing
\* flag, the capture flags and the active playback handle stay as they are,
\* no message is sent to the widget and no audio starts playing.
C14_QuietAfterUnmount ==
    [][~isMounted =>
          /\ UNCHANGED <<scriptStatus, errors, isInitializingSession, isRecording,
                         isSendingAudio, activeAudio>>
          /\ last'.cb /= "sendMessage"
          /\ \A a \in AudioIds : audios'[a].pc = "playing" => audios[a].pc = "playing"]_vars

\* C15: when the timer of the readiness effect fires and the runtime is still
\* not registered, the readiness status becomes error, the script slot holds
\* the message that asks to verify that the script URL is reachable, and
\* retryable is false.
C15_TimerError ==
    [][(TimerFires /\ ~registered)
          => /\ scriptStatus' = "error"
             /\ errors'.script = "Error: " \o TimeoutDetail
             /\ errors'.retryable = FALSE]_vars

C15_Witness ==
    /\ last.op = "timer"
    /\ ~registered
    /\ scriptStatus = "error"
    /\ errors.script =
         "Error: ChatKit web component is unavailable. Verify that the script URL is reachable."

\* C16: the readiness status never goes from ready to pending: the only step
\* that takes it back to pending is a reset taken while it is error.
C16_ReadySticky ==
    [][(scriptStatus' = "pending" /\ scriptStatus /= "pending")
          => (scriptStatus = "error" /\ last'.op = "reset")]_vars

\* C17: a thread-change notification empties the fact registry and changes
\* nothing else: the error slots with retryable, the readiness status, the
\* initializing flag, the widget instance key, the active playback handle and
\* the voice capture state are as before.
C17_ThreadChangeFrame ==
    [][ThreadChange
          => /\ processedFacts' = {}
             /\ UNCHANGED <<errors, scriptStatus, isInitializingSession,
                            widgetInstanceKey, activeAudio, audios, isRecording,
                            isSendingAudio, mediaRecorderRef, audioChunksRef,
                            captures>>]_vars

C17_Witness ==
    /\ last.op = "thread_change"
    /\ processedFacts = {}
    /\ errors.session /= Null
    /\ widgetInstanceKey > 0
    /\ activeAudio /= 0

\* C18: after a response-started notification the active playback handle is
\* null, no audio that was playing is still playing and the integration slot
\* is null; the script and session slots, the readiness status, the
\* initializing flag, the fact registry and the widget instance key are as
\* before.
C18_ResponseStarted ==
    [][ResponseStart
          => /\ activeAudio' = 0
             /\ \A a \in AudioIds : audios'[a].pc /= "playing"
             /\ errors'.integration = Null
             /\ errors'.script = errors.script
             /\ errors'.session = errors.session
             /\ UNCHANGED <<scriptStatus, isInitializingSession, processedFacts,
                            widgetInstanceKey>>]_vars

\* C19: the client tools are dispatched by name. switch_theme with "light" or
\* "dark" calls onThemeRequest once with that value and returns success, with
\* any other argument it returns failure and calls nothing; record_fact
\* returns success for every identifier, the empty and the already recorded
\* ones included; any other tool returns failure and calls nothing.
C19_ToolDispatch ==
    [][/\ \A t \in ThemeParams :
             SwitchTheme(t)
                => IF t \in {"light", "dark"}
                   THEN last'.out = "success" /\ last'.cb = "theme:" \o t
                   ELSE last'.out = "failure" /\ last'.cb = ""
       /\ \A id \in FactIdParams, text \in FactTextParams :
             RecordFact(id, text)
                => /\ last'.out = "success"
                   /\ last'.cb \in {"", "save:" \o Coalesce(id, "")}
       /\ OtherTool => (last'.out = "failure" /\ last'.cb = "")]_vars

C19_Witness ==
    /\ last.op = "switch_theme"
    /\ last.out = "success"
    /\ last.cb = "theme:dark"
    /\ processedFacts /= {}

\* C20: retryable is false in every reachable state, so the overlay never
\* offers the retry action, whatever errors have been stored.
C20_NeverRetryable == errors.retryable = FALSE /\ ~retryOffered

C20_Witness ==
    /\ last.op = "acquire_rejected"
    /\ errors.session = "Failed to fetch"
    /\ Truthy(blockingError)
    /\ ~retryOffered

\* C21: while the workflow is not configured the configuration error is
\* terminal: the session slot holds the configuration message from the mount
\* on, and every state presents a blocking error, whatever resets,
\* response-started notifications, readiness signals and getClientSecret
\* calls happen.
C21_ConfigTerminal == ~workflowConfigured => Truthy(blockingError)

\* C22: once the timer has fired and set the readiness status to error, a
\* later loaded signal is ignored: the status stays error and the script slot
\* keeps its message.
C22_LateLoadedIgnored ==
    [][(LoadedSignal /\ scriptStatus = "error"
                     /\ errors.script = "Error: " \o TimeoutDetail)
          => (scriptStatus' = "error" /\ errors'.script = errors.script)]_vars

\* C24: whenever the timer fires while the readiness status is pending, the
\* status becomes error and the script slot holds the synthesized message,
\* also when the runtime registered itself during the wait.
C24_TimerEndsPending ==
    [][(TimerFires /\ scriptStatus = "pending")
          => (scriptStatus' = "error" /\ errors'.script = "Error: " \o TimeoutDetail)]_vars

\* C23: an unmount or a reset cancels the timer of the activation before it:
\* no step taken after the unmount, and no firing of a timer started before
\* the last reset, changes the readiness status or the script slot.
C23_NoStaleTimer ==
    [][(~isMounted \/ (TimerFires /\ timerKey < widgetInstanceKey))
          => (scriptStatus' = scriptStatus /\ errors'.script = errors.script)]_vars

\* C25: with the workflow configured, only the settlement of a first
\* acquisition, getClientSecret(null), takes the initializing flag from true
\* to false: no load-error signal, timer, loaded signal, response-started or
\* thread-change notification does.
C25_InitializingUntilSettled ==
    [][(workflowConfigured /\ isInitializingSession /\ ~isInitializingSession')
          => /\ last'.op \in {"acquire_resolved", "acquire_rejected"}
             /\ calls[last'.id].pc = "fetching"
             /\ calls[last'.id].first]_vars

\* C26: with the workflow configured and the component mounted, while a
\* getClientSecret(null) is in flight and no blocking error exists the
\* loading state is shown, also when two first acquisitions overlap.
C26_LoadingWhileInFlight ==
    (/\ workflowConfigured /\ isMounted
     /\ \E c \in CallIds : calls[c].pc = "fetching" /\ calls[c].first
     /\ blockingError = Null)
        => (isInitializingSession /\ fallbackMessage /= Null)

\* the responses whose body is empty or is not JSON
UndecodedResponses ==
    { r \in Responses : r.kind = "response" /\ r.raw.text \in {"empty", "garbage"} }

\* the success responses whose body is JSON with no client_secret, or with a
\* null or empty one
NoSecretResponses ==
    { r \in Responses :
        /\ r.kind = "response" /\ r.ok /\ r.raw.text = "json"
        /\ BodyOf(r).client_secret.t \in {"undef", "null", "str"}
        /\ ~HasSecret(r) }

\* C27: a body that is empty or does not decode as JSON does not decide the
\* outcome: with a success status the call rejects with "Missing client
\* secret in response", with a non-success status it rejects with the HTTP
\* status text; a success status with a decoded body that has no
\* client_secret, or a null or empty one, rejects with the same
\* missing-client-secret message.
C27_UndecodedBody ==
    [][\A r \in UndecodedResponses \cup NoSecretResponses :
          (calls[1].pc = "fetching" /\ AcquireSettle(1, r)) =>
            /\ last'.op = "acquire_rejected"
            /\ last'.out = IF r.ok THEN "Missing client secret in response"
                           ELSE r.statusText]_vars

\* C27 witness: a call was rejected for the missing client secret, which the
\* session slot now reports.
C27_Witness ==
    /\ isMounted
    /\ last.op = "acquire_rejected"
    /\ last.out = "Missing client secret in response"
    /\ calls[1].pc = "rejected"
    /\ errors.session = "Missing client secret in response"

\* C28: no producer clobbers the slot of another: no step of getClientSecret
\* (the clear before the request, the success, the failure) changes the
\* script slot, and no step of the readiness effect (loaded signal, load-error
\* signal, timer) changes the session or the integration slot; reset changes
\* all of them at once. The task of a step is the one recorded in last'.
C28_OwnSlotOnly ==
    [][/\ last'.op \in {"acquire_fetch", "acquire_resolved", "acquire_rejected"}
          => errors'.script = errors.script
       /\ last'.op \in {"loaded", "script_error", "timer"}
          => (errors'.session = errors.session
              /\ errors'.integration = errors.integration)
       /\ last'.op = "reset" => errors' = createInitialErrors]_vars

\* C28 witness: a call was rejected while the script slot holds the error of
\* the readiness effect, and both messages are stored.
C28_Witness ==
    /\ last.op = "acquire_rejected"
    /\ errors.script = "Error: load failed"
    /\ errors.session = "Failed to fetch"

\* C29: the capture buffer holds chunks only while recording: it is empty in
\* every idle state and in every state where a payload has been built and is
\* being sent, and the payload of a capture holds no chunk of another capture.
C29_BufferOnlyWhileRecording ==
    /\ (~isRecording /\ ~isSendingAudio) => audioChunksRef = <<>>
    /\ (~isRecording /\ \E k \in CaptureIds : captures[k].pc = "uploading")
          => audioChunksRef = <<>>
    /\ \A k \in CaptureIds :
          \A i \in DOMAIN captures[k].blob : captures[k].blob[i] = k

\* C30: the settlement of the transcription request of a capture sends one
\* message to the widget, the transcript, exactly when the endpoint answered
\* with a success status and a non-empty transcript; on a non-success status,
\* an empty or absent transcript, a failed request or a body that does not
\* decode it sends none. No capture sends more than one message.
C30_OneMessagePerTranscript ==
    [][\A k \in CaptureIds, r \in SttResponses :
          SttSettle(k, r) =>
            /\ captures'[k].pc = "done"
            /\ IF r.kind = "response" /\ r.ok /\ r.json = "object"
                  /\ r.transcript \notin {Null, ""}
               THEN /\ last'.cb = "sendMessage" /\ last'.out = r.transcript
                    /\ captures'[k].sent = 1
               ELSE /\ last'.cb = "" /\ captures'[k].sent = 0]_vars

\* C30 witness: the transcript of a capture was sent to the widget and the
\* capture is done.
C30_Witness ==
    /\ last.op = "stt_settled"
    /\ last.cb = "sendMessage"
    /\ last.out = "hello"
    /\ captures[last.id].pc = "done"
    /\ captures[last.id].sent = 1

\* C31: no step of the voice capture and no step of the playback changes an
\* error slot, retryable or the initializing flag; after a failure of the
\* capture (getUserMedia refused, media API missing, transcription not
\* obtained) the capture is idle, and after a failed speech request the audio
\* did not start.
C31_SilentFailures ==
    [][/\ last'.op \in {"voice_stop", "voice_unsupported", "voice_start", "mic_settled",
                        "recorder_stopped", "stt_settled", "speak_noop", "speak_fetch",
                        "speak_play", "speak_failed", "audio_ended"}
          => UNCHANGED <<errors, isInitializingSession>>
       /\ (isMounted /\ (\/ last'.op = "voice_unsupported"
                         \/ last'.op = "mic_settled" /\ last'.out = "denied"
                         \/ last'.op = "stt_settled" /\ last'.cb = ""))
          => (~isRecording' /\ ~isSendingAudio')
       /\ last'.op = "speak_failed" => audios'[last'.id].pc /= "playing"]_vars

\* C32: every audio that was created is eventually stopped with its object
\* URL revoked, whether it reaches its end or is superseded by a new call of
\* playAudioFromText, a response-started notification or a reset.
C32_AudioReleased ==
    \A a \in AudioIds :
        (audios[a].url = "live")
            ~> (audios[a].url = "revoked" /\ audios[a].pc /= "playing")

\* C33: a response-started notification or a reset stops the playback of
\* every call of playAudioFromText made before it: a call whose request was
\* in flight at that moment does not start playing afterwards and does not
\* set the active handle. Stated for the request that settles in the task
\* right after the notification or the reset, which was in flight when it
\* arrived.
C33_CutSpeakStaysSilent ==
    [][(last.op \in {"response_start", "reset"}
        /\ last'.op \in {"speak_play", "speak_failed"})
          => (audios'[last'.id].pc /= "playing" /\ activeAudio' = activeAudio)]_vars


\* the voice control as rendered, lines 375-382
voiceIcon == IF isRecording THEN "stop" ELSE "microphone"
voiceLabel ==
    IF isRecording THEN "Stop"
    ELSE IF isSendingAudio THEN "Processing..." ELSE "Record"

\* C34: the capture state is exactly one of idle, recording and processing:
\* isRecording and isSendingAudio are never both true, and the control shows
\* "Record" enabled when idle, "Stop" when recording and "Processing..."
\* disabled when processing.
C34_CaptureState ==
    /\ ~(isRecording /\ isSendingAudio)
    /\ (~isRecording /\ ~isSendingAudio) => (voiceLabel = "Record" /\ ~voiceDisabled)
    /\ isRecording => (voiceLabel = "Stop" /\ voiceIcon = "stop")
    /\ isSendingAudio => (voiceLabel = "Processing..." /\ voiceDisabled)


\* C35: an audio is playing only if the active playback handle refers to it:
\* while an audio started by playAudioFromText plays, the handle is neither
\* null nor the handle of another audio. Stated for the mounted component,
\* whose state holds the handle.
C35_PlayingIsActive ==
    isMounted => \A a \in AudioIds : audios[a].pc = "playing" => activeAudio = a


\* C36: the integration slot is null in every reachable state: no operation,
\* the widget's onError callback included, writes a value to it, so the
\* blocking error presented is the script message or the session message.
C36_IntegrationNull ==
    /\ errors.integration = Null
    /\ activeError = errors.session
    /\ blockingError = Coalesce(errors.script, errors.session)
\* the widget has reported an error while a session error is presented
C36_Witness ==
    /\ last.op = "widget_error"
    /\ errors.session /= Null
    /\ blockingError = errors.session


\* the workflow id of the request: body.workflow.id, then body.workflowId,
\* then the configured default, the first that is present
C37_Present(v) == v.t \notin {"undef", "null"}
C37_WorkflowId ==
    LET first == IF post.body.kind = "object" /\ post.body.workflow.t = "obj"
                 THEN post.body.workflow.id ELSE JUndef
        second == IF post.body.kind = "object" THEN post.body.workflowId ELSE JUndef
    IN  IF C37_Present(first) THEN first
        ELSE IF C37_Present(second) THEN second
        ELSE JStr(post.WORKFLOW_ID)
C37_OrNull(data, member) ==
    IF data.kind = "object" /\ C37_Present(data[member]) THEN data[member] ELSE JNull

\* C37: the handler answers a POST with exactly one response: 500 and no
\* upstream call when the API key is missing; 400 and no upstream call when
\* no workflow id resolves; the upstream's status with an error envelope when
\* the upstream answers non-success; 200 with client_secret and expires_after,
\* null when omitted, otherwise; 500 when an exception is thrown (the fetch
\* rejects, or the success body is the JSON null).
C37_OneResponse ==
    /\ post.pc /= "done" => post.responses = <<>>
    /\ post.pc = "done" =>
          /\ Len(post.responses) = 1
          /\ LET r == post.responses[1]
                 u == post.upstream
             IN  IF ~Truthy(post.apiKey)
                 THEN r.status = 500 /\ r.error /= Null /\ post.upstreamCalls = 0
                 ELSE IF ~(C37_WorkflowId.t = "str" /\ C37_WorkflowId.s /= "")
                 THEN r.status = 400 /\ r.error /= Null /\ post.upstreamCalls = 0
                 ELSE /\ post.upstreamCalls = 1
                      /\ post.sent.workflow = C37_WorkflowId
                      /\ IF u.kind = "rejected" THEN r.status = 500 /\ r.error /= Null
                         ELSE IF u.status \notin 200..299
                         THEN r.status = u.status /\ r.error /= Null
                         ELSE IF u.data.kind = "null"
                         THEN r.status = 500 /\ r.error /= Null
                         ELSE /\ r.status = 200
                              /\ r.error = Null
                              /\ r.client_secret = C37_OrNull(u.data, "client_secret")
                              /\ r.expires_after = C37_OrNull(u.data, "expires_after")
\* a success whose upstream body omitted both members, for a request whose
\* workflow id came from the configured default
C37_Witness ==
    /\ post.pc = "done"
    /\ post.responses[1].status = 200
    /\ post.upstream.data.kind = "object"
    /\ post.responses[1].client_secret = JNull
    /\ post.responses[1].expires_after = JNull
    /\ post.body.kind = "unparsed"
    /\ post.sent.workflow = JStr("wf_default")

=============================================================================
